---- MODULE Spec2Model ----
(***************************************************************************)
(* Model of package worker: RunGenericWorkerPoolStream, one invocation.    *)
(* A batch of jobs is validated, then a feeder goroutine hands the jobs to *)
(* NumWorkers worker goroutines over the unbuffered channel jobCh; results *)
(* go through sendResult into the buffered channel outCh, and a finalizer  *)
(* goroutine closes outCh after the feeder and the workers are done.       *)
(*                                                                         *)
(* Job payloads and result values are opaque to the engine and left out;   *)
(* a job is its ID, a result is its ID and the kind of its Err. No         *)
(* operation of the engine reads outCh, so outCh is the bag of the results *)
(* sent on it, whatever the consumer has received of them so far.          *)
(***************************************************************************)
EXTENDS Integers, Sequences, FiniteSets, Bags, TLC

\* ---------------------------------------------------------------- bounds
MaxJobs == 3          \* longest batch submitted
MaxWorkers == 1       \* largest cfg.NumWorkers the caller supplies
MaxAttempts == 2      \* most sendResult calls made for one ID in SinkSpec
GateCap == 1          \* capacity of the caller's globalSemaphore

\* cfg.NumWorkers default
DefaultNumWorkers == 2

\* ---------------------------------------------------------------- inputs
Max(a, b) == IF a >= b THEN a ELSE b

\* worker slots of the model: enough for every resolved cfg.NumWorkers
WorkerSlots == 1..Max(DefaultNumWorkers, MaxWorkers)

JobIDs == 1..MaxJobs

\* The engine only compares IDs for equality (map keys), so batches are
\* taken up to renaming of IDs: the first job has ID 1 and each job has an
\* ID seen before or the next unused one.
Canonical(b) ==
    \A i \in DOMAIN b :
        \/ b[i] = 1
        \/ \E j \in 1..(i - 1) : b[j] = b[i]
        \/ \E j \in 1..(i - 1) : b[j] = b[i] - 1

Batches ==
    {b \in UNION {[1..n -> JobIDs] : n \in 0..MaxJobs} : Canonical(b)}

\* Err of a Result, as <<kind, detail>>: nil, an error returned by
\* workerFunc (an error of its own or the error of its context, the engine
\* does not tell them apart), a recovered panic, ErrSkipped (44), or the
\* duplicate-ID rejection, which names the repeated ID (78).
NilErr == <<"nil", 0>>
OpErr == <<"err", 0>>
PanicErr == <<"panic", 0>>
ErrSkipped == <<"skipped", 0>>
DupErr(id) == <<"dup", id>>

\* what workerFunc can return
OpErrs == {NilErr, OpErr}

\* ------------------------------------------------------------- durations
\* time.Duration is an int64 count of nanoseconds. A duration is written as
\* its 64 bits in two's complement, cut in four limbs of 16 bits, the most
\* significant first, so that the products of the limbs stay small numbers.
Limb == 2 ^ 16

Zero64 == <<0, 0, 0, 0>>
Nanosecond == <<0, 0, 0, 1>>
MinusOne64 == <<Limb - 1, Limb - 1, Limb - 1, Limb - 1>>
MaxInt64 == <<Limb \div 2 - 1, Limb - 1, Limb - 1, Limb - 1>>
MinInt64 == <<Limb \div 2, 0, 0, 0>>
\* time.Second: 1000000000 = 15258 * 2^16 + 51712
Second == <<0, 0, 15258, 51712>>

Negative64(d) == d[1] >= Limb \div 2

\* a < b, both read as unsigned
LessUnsigned(a, b) ==
    \E i \in 1..4 : a[i] < b[i] /\ \A j \in 1..(i - 1) : a[j] = b[j]

\* a < b on int64
Less64(a, b) ==
    IF Negative64(a) # Negative64(b) THEN Negative64(a) ELSE LessUnsigned(a, b)

\* k * d on int64 for a small k >= 0: Go's product wraps around modulo 2^64
Times64(k, d) ==
    LET x4 == k * d[4]
        x3 == k * d[3] + x4 \div Limb
        x2 == k * d[2] + x3 \div Limb
        x1 == k * d[1] + x2 \div Limb
    IN  <<x1 % Limb, x2 % Limb, x3 % Limb, x4 % Limb>>

\* cfg.GlobalTimeout and cfg.WorkerTimeout defaults
DefaultGlobalTimeout == Times64(30, Second)
DefaultWorkerTimeout == Times64(15, Second)

\* the durations a caller supplies in the model: zero, negative, the ends of
\* int64, the two sides of the largest value that can be doubled, and values
\* below, between and above the defaults
RawDurations ==
    {Zero64, MinusOne64, Nanosecond, MinInt64, MaxInt64,
     <<Limb \div 4, 0, 0, 0>>, <<Limb \div 4 - 1, Limb - 1, Limb - 1, Limb - 1>>,
     Times64(10, Second), DefaultWorkerTimeout, Times64(20, Second),
     DefaultGlobalTimeout, Times64(60, Second)}

VARIABLES
    jobs,            \* the submitted batch: sequence of job IDs
    ctxDone,         \* the caller's ctx is cancelled
    ctxAtCall,       \* history: ctx was cancelled when the batch was submitted
    cfg,             \* WorkerPoolConfig: [NumWorkers, WorkerTimeout,
                     \*   GlobalTimeout, StopOnError], the callee's copy
    supplied,        \* history: the cfg the caller passed (kept by CfgSpec)
    taskLeft,        \* the timeout a taskCtx got and what poolCtx had left
    globalSemaphore, \* [nil, cap, len]: the caller's gate channel
    path,            \* "call" before the call, then the branch taken
    outCh,           \* bag of the results sent on outCh
    outCap,          \* buffer capacity of outCh
    outClosed,       \* number of close(outCh) executed
    pfIdx,           \* pre-flight goroutines: index of the next job to send
    pfErr,           \* pre-flight goroutines: the Err they send
    fIdx,            \* feeder: index of the job it offers
    jobChClosed,     \* feeder ran close(jobCh) and feederWG.Done()
    wpc,             \* worker: position in its loop
    wjob,            \* worker: ID of the job it took (0: none)
    wres,            \* worker: Err of the operation that returned
    taskCtx,         \* worker: "none", "live", "timeout", "cancelled"
    poolDone,        \* poolCtx.Done() is closed
    cancelOnce,      \* cancelOnce.Do has run
    sentResults,     \* IDs stored in the sentResults map
    finpc,           \* finalizer: position
    held,            \* tokens of globalSemaphore this run has put in
    invoked,         \* history: ID -> number of workerFunc calls
    wlate,           \* history: the worker took its job when poolCtx was done
    skipCalls,       \* history: IDs for which sendResult got ErrSkipped
    feederSaw,       \* history: the feeder took the case of 210 for a job
    sendCalls        \* history: ID -> number of sendResult calls

vars == <<jobs, ctxDone, ctxAtCall, cfg, supplied, taskLeft, globalSemaphore, path, outCh, outCap, outClosed,
          pfIdx, pfErr, fIdx, jobChClosed, wpc, wjob, wres, taskCtx, poolDone,
          cancelOnce, sentResults, finpc, held, invoked, wlate, skipCalls,
          feederSaw, sendCalls>>

\* fixed once the call has returned
timeVars == <<supplied, taskLeft>>
callVars == <<jobs, ctxAtCall, cfg, timeVars, path, outCap, pfIdx, pfErr>>
gateVars == <<globalSemaphore, held>>
sinkVars == <<outCh, sentResults, skipCalls, feederSaw, sendCalls>>
cancelVars == <<ctxDone, poolDone, cancelOnce>>

N == Len(jobs)

Workers == 1..cfg.NumWorkers

\* the caller passes no gate, or a gate that is empty at the call, with a
\* buffer of GateCap tokens or unbuffered (nobody receives from a gate
\* without having sent, so a send on an unbuffered gate never goes
\* through); tokens of other callers come and go by ExtAcquire and
\* ExtRelease
Gates ==
    {[nil |-> TRUE, cap |-> 0, len |-> 0],
     [nil |-> FALSE, cap |-> 0, len |-> 0],
     [nil |-> FALSE, cap |-> GateCap, len |-> 0]}

\* the configurations of the runs: the timeouts are left at zero, the
\* deadlines of the contexts fire at any moment, whatever their length
Configs ==
    [NumWorkers : 0..MaxWorkers, StopOnError : BOOLEAN,
     WorkerTimeout : {Zero64}, GlobalTimeout : {Zero64}]

\* before the call: nothing is made yet
InitRun ==
    /\ path = "call"
    /\ taskLeft = {}
    /\ outCh = EmptyBag
    /\ outCap = 0
    /\ outClosed = 0
    /\ pfIdx = 0
    /\ pfErr = NilErr
    /\ fIdx = 0
    /\ jobChClosed = FALSE
    /\ wpc = [w \in WorkerSlots |-> "none"]
    /\ wjob = [w \in WorkerSlots |-> 0]
    /\ wres = [w \in WorkerSlots |-> NilErr]
    /\ taskCtx = [w \in WorkerSlots |-> "none"]
    /\ poolDone = FALSE
    /\ cancelOnce = FALSE
    /\ sentResults = {}
    /\ finpc = "none"
    /\ held = 0
    /\ invoked = [id \in JobIDs |-> 0]
    /\ wlate = [w \in WorkerSlots |-> FALSE]
    /\ skipCalls = {}
    /\ feederSaw = FALSE
    /\ sendCalls = [id \in JobIDs |-> 0]

Init ==
    /\ jobs \in Batches
    /\ ctxDone \in BOOLEAN
    /\ ctxAtCall = ctxDone
    /\ cfg \in Configs
    /\ supplied = {}
    /\ globalSemaphore \in Gates
    /\ InitRun

\* ------------------------------------------------------- pre-flight checks
\* variant of DuplicateIndex: an ID is compared with the previous job's only
DuplicateIndexAdjacent(js) ==
    LET dups == {i \in DOMAIN js : i > 1 /\ js[i - 1] = js[i]}
    IN  IF dups = {} THEN 0
        ELSE CHOOSE i \in dups : \A k \in dups : i <= k

\* part_001:73-87: index of the first job whose ID was seen before, 0 if none
DuplicateIndex(js) ==
    LET dups == {i \in DOMAIN js : \E j \in 1..(i - 1) : js[j] = js[i]}
    IN  IF dups = {} THEN 0
        ELSE CHOOSE i \in dups : \A k \in dups : i <= k

\* variant of PreflightPath: the empty batch is not returned at once
PreflightPathNoEmpty(js, done) ==
    IF DuplicateIndex(js) # 0 THEN "dup"
    ELSE IF done THEN "skipall"
    ELSE "pool"

\* variant of PreflightPath: the parent context is not looked at
PreflightPathNoCtx(js, done) ==
    IF Len(js) = 0 THEN "empty"
    ELSE IF DuplicateIndex(js) # 0 THEN "dup"
    ELSE "pool"

\* variant of PreflightPath: the parent context is looked at before the
\* IDs are compared
PreflightPathCtxFirst(js, done) ==
    IF Len(js) = 0 THEN "empty"
    ELSE IF done THEN "skipall"
    ELSE IF DuplicateIndex(js) # 0 THEN "dup"
    ELSE "pool"

\* part_001:66-101: the branch the call takes
PreflightPath(js, done) ==
    IF Len(js) = 0 THEN "empty"
    ELSE IF DuplicateIndex(js) # 0 THEN "dup"
    ELSE IF done THEN "skipall"
    ELSE "pool"

\* part_001:104-106
ResolveNumWorkers(n) == IF n <= 0 THEN DefaultNumWorkers ELSE n

\* part_001:108-110
ResolveGlobalTimeout(g) ==
    IF ~Less64(Zero64, g) THEN DefaultGlobalTimeout ELSE g

\* part_001:112-118, g the GlobalTimeout after 108-110
ResolveWorkerTimeout(t, g) ==
    IF ~Less64(Zero64, t)
    THEN IF Less64(g, DefaultWorkerTimeout) THEN g ELSE DefaultWorkerTimeout
    ELSE t

\* variant of RaiseGlobalTimeout: the batch timeout is left as it is
RaiseGlobalTimeoutNever(g, t) == g

\* part_001:121-123, t the WorkerTimeout after 112-118
RaiseGlobalTimeout(g, t) ==
    IF Less64(g, t) THEN Times64(2, t) ELSE g

\* part_001:104-123
ResolveConfig(c) ==
    LET g == ResolveGlobalTimeout(c.GlobalTimeout)
        t == ResolveWorkerTimeout(c.WorkerTimeout, g)
    IN  [NumWorkers |-> ResolveNumWorkers(c.NumWorkers),
         StopOnError |-> c.StopOnError,
         WorkerTimeout |-> t,
         GlobalTimeout |-> RaiseGlobalTimeout(g, t)]

\* variant of OutCapacity: the channel of the results is made without a
\* buffer
OutCapacityUnbuffered(js) == 0

\* part_001:76, 92 and 125: make(chan Result[R], len(jobs))
OutCapacity(js) == Len(js)

\* part_001:58-225 up to the return: validation, defaults, channels and
\* contexts, and the start of the goroutines of the branch taken. poolCtx
\* is a child of ctx (128): it is done from the start if ctx is, or if its
\* timeout is not positive.
Submit ==
    /\ path = "call"
    /\ path' = PreflightPath(jobs, ctxDone)
    /\ CASE path' = "empty" ->
              /\ outCap' = 0
              /\ outClosed' = outClosed + 1
              /\ UNCHANGED <<cfg, pfIdx, pfErr, fIdx, wpc, finpc, poolDone>>
         [] path' = "dup" ->
              /\ outCap' = OutCapacity(jobs)
              /\ pfIdx' = 1
              /\ pfErr' = DupErr(jobs[DuplicateIndex(jobs)])
              /\ UNCHANGED <<cfg, outClosed, fIdx, wpc, finpc, poolDone>>
         [] path' = "skipall" ->
              /\ outCap' = OutCapacity(jobs)
              /\ pfIdx' = 1
              /\ pfErr' = ErrSkipped
              /\ UNCHANGED <<cfg, outClosed, fIdx, wpc, finpc, poolDone>>
         [] OTHER ->
              /\ cfg' = ResolveConfig(cfg)
              /\ outCap' = OutCapacity(jobs)
              /\ wpc' = [w \in WorkerSlots |->
                           IF w <= cfg'.NumWorkers THEN "recv" ELSE "none"]
              /\ fIdx' = 1
              /\ finpc' = "waitFeeder"
              /\ poolDone' = (ctxDone \/ ~Less64(Zero64, cfg'.GlobalTimeout))
              /\ UNCHANGED <<outClosed, pfIdx, pfErr>>
    /\ UNCHANGED <<jobs, ctxAtCall, timeVars, gateVars, sinkVars, ctxDone, cancelOnce,
                   jobChClosed, wjob, wres, taskCtx, invoked, wlate>>

\* part_001:79-81 and 94-96: the goroutine of a rejected or skipped batch
\* sends one result per job, straight on outCh
PreflightSend ==
    /\ path \in {"dup", "skipall"}
    /\ pfIdx \in 1..N
    /\ BagCardinality(outCh) < outCap
    /\ outCh' = outCh (+) SetToBag({[ID |-> jobs[pfIdx], Err |-> pfErr]})
    /\ pfIdx' = pfIdx + 1
    /\ UNCHANGED <<jobs, ctxAtCall, cfg, timeVars, path, outCap, pfErr, gateVars,
                   cancelVars, outClosed, fIdx, jobChClosed, wpc, wjob, wres,
                   taskCtx, sentResults, finpc, invoked, wlate, skipCalls,
                   feederSaw, sendCalls>>

\* part_001:82 and 97
PreflightClose ==
    /\ path \in {"dup", "skipall"}
    /\ pfIdx = N + 1
    /\ outClosed' = outClosed + 1
    /\ pfIdx' = 0
    /\ UNCHANGED <<jobs, ctxAtCall, cfg, timeVars, path, outCap, pfErr, gateVars,
                   cancelVars, sinkVars, fIdx, jobChClosed, wpc, wjob, wres,
                   taskCtx, finpc, invoked, wlate>>

\* ------------------------------------------------------------ result sink
\* variant of SendResult: the result is sent without looking at the
\* sentResults map
SendResultNoDedup(id, err) ==
    /\ sendCalls' = [sendCalls EXCEPT ![id] = @ + 1]
    /\ skipCalls' = IF err = ErrSkipped THEN skipCalls \cup {id} ELSE skipCalls
    /\ sentResults' = sentResults \cup {id}
    /\ BagCardinality(outCh) < outCap
    /\ outCh' = outCh (+) SetToBag({[ID |-> id, Err |-> err]})

\* part_001:141-145: LoadOrStore is one atomic step; the send blocks while
\* the buffer of outCh is full
SendResult(id, err) ==
    /\ sendCalls' = [sendCalls EXCEPT ![id] = @ + 1]
    /\ skipCalls' = IF err = ErrSkipped THEN skipCalls \cup {id} ELSE skipCalls
    /\ IF id \in sentResults
       THEN UNCHANGED <<sentResults, outCh>>
       ELSE /\ sentResults' = sentResults \cup {id}
            /\ BagCardinality(outCh) < outCap
            /\ outCh' = outCh (+) SetToBag({[ID |-> id, Err |-> err]})

\* variant of CancelTasks: taskCtx is made from context.Background(), the
\* end of poolCtx does not reach it
CancelTasksNone(f) == f

\* part_001:186: every taskCtx is a child of poolCtx, so the step that ends
\* poolCtx ends each taskCtx that is still live; f holds the taskCtx of the
\* workers
CancelTasks(f) ==
    [w \in WorkerSlots |-> IF f[w] = "live" THEN "cancelled" ELSE f[w]]

\* part_001:131-135
SafeCancelPool ==
    /\ cancelOnce' = TRUE
    /\ poolDone' = TRUE
    /\ taskCtx' = CancelTasks(taskCtx)

\* part_001:164-169: the workers blocked in the select on the gate, which
\* they entered when the gate was full and poolCtx was not done
Parked == {w \in WorkerSlots : wpc[w] = "parked"}

\* variant of Wake: the send on the gate is not in a select with
\* poolCtx.Done(), a worker blocked on the full gate stays blocked
WakeNobody(f) == f

\* part_001:166: the close of poolCtx.Done() ends the select of every
\* worker blocked in it, with the case of 166 taken; f holds the positions
\* of the workers
Wake(f) ==
    [w \in WorkerSlots |-> IF f[w] = "parked" THEN "woken" ELSE f[w]]

\* ----------------------------------------------------------------- feeder
\* variant of FeederHandoff: the two cases of the select of 208-212 do not
\* exclude each other, a job handed to a worker when poolCtx is done is
\* reported as skipped by the feeder too
FeederHandoffAndSkip(w) ==
    /\ path = "pool"
    /\ fIdx \in 1..N
    /\ wpc[w] = "recv"
    /\ wpc' = [wpc EXCEPT ![w] = "check"]
    /\ wjob' = [wjob EXCEPT ![w] = jobs[fIdx]]
    /\ fIdx' = fIdx + 1
    /\ wlate' = [wlate EXCEPT ![w] = poolDone]
    /\ IF poolDone
       THEN SendResult(jobs[fIdx], ErrSkipped) /\ UNCHANGED feederSaw
       ELSE UNCHANGED sinkVars
    /\ UNCHANGED <<callVars, gateVars, cancelVars, outClosed, jobChClosed,
                   wres, taskCtx, finpc, invoked>>

\* part_001:209: the send on the unbuffered jobCh and the receive of
\* "for job := range jobCh" (153) are one rendezvous. The select takes this
\* case whenever a worker is receiving, also when poolCtx is done.
FeederHandoff(w) ==
    /\ path = "pool"
    /\ fIdx \in 1..N
    /\ wpc[w] = "recv"
    /\ wpc' = [wpc EXCEPT ![w] = "check"]
    /\ wjob' = [wjob EXCEPT ![w] = jobs[fIdx]]
    /\ fIdx' = fIdx + 1
    /\ wlate' = [wlate EXCEPT ![w] = poolDone]
    /\ UNCHANGED <<callVars, gateVars, sinkVars, cancelVars, outClosed,
                   jobChClosed, wres, taskCtx, finpc, invoked>>

\* variant of FeederSkip: the feeder drops the job without a result
FeederSkipNoSend ==
    /\ path = "pool"
    /\ fIdx \in 1..N
    /\ poolDone
    /\ fIdx' = fIdx + 1
    /\ UNCHANGED <<callVars, gateVars, sinkVars, cancelVars, outClosed,
                   jobChClosed, wpc, wjob, wres, taskCtx, finpc, invoked,
                   wlate>>

\* part_001:210-211
FeederSkip ==
    /\ path = "pool"
    /\ fIdx \in 1..N
    /\ poolDone
    /\ SendResult(jobs[fIdx], ErrSkipped)
    /\ feederSaw' = TRUE
    /\ fIdx' = fIdx + 1
    /\ UNCHANGED <<callVars, gateVars, cancelVars, outClosed, jobChClosed,
                   wpc, wjob, wres, taskCtx, finpc, invoked, wlate>>

\* variant of FeederClose: the feeder returns as soon as it finds poolCtx
\* done, leaving the jobs it has not offered
FeederCloseOnCancel ==
    /\ path = "pool"
    /\ fIdx = N + 1 \/ (fIdx \in 1..N /\ poolDone)
    /\ ~jobChClosed
    /\ jobChClosed' = TRUE
    /\ UNCHANGED <<callVars, gateVars, sinkVars, cancelVars, outClosed, fIdx,
                   wpc, wjob, wres, taskCtx, finpc, invoked, wlate>>

\* part_001:204-205: close(jobCh), then feederWG.Done()
FeederClose ==
    /\ path = "pool"
    /\ fIdx = N + 1
    /\ ~jobChClosed
    /\ jobChClosed' = TRUE
    /\ UNCHANGED <<callVars, gateVars, sinkVars, cancelVars, outClosed, fIdx,
                   wpc, wjob, wres, taskCtx, finpc, invoked, wlate>>

\* ---------------------------------------------------------------- workers
\* part_001:153 and 151: range over the closed jobCh ends, workerWG.Done()
WorkerExit(w) ==
    /\ wpc[w] = "recv"
    /\ jobChClosed
    /\ wpc' = [wpc EXCEPT ![w] = "done"]
    /\ UNCHANGED <<callVars, gateVars, sinkVars, cancelVars, outClosed, fIdx,
                   jobChClosed, wjob, wres, taskCtx, finpc, invoked, wlate>>

\* variant of WorkerPreCheck: the "continue" of 159 is missing, the worker
\* sends the skipped result and goes on with the job
WorkerPreCheckNoContinue(w) ==
    /\ wpc[w] = "check"
    /\ IF poolDone
       THEN /\ SendResult(wjob[w], ErrSkipped)
            /\ UNCHANGED feederSaw
            /\ wlate' = [wlate EXCEPT ![w] = FALSE]
       ELSE UNCHANGED <<sinkVars, wlate>>
    /\ wpc' = [wpc EXCEPT ![w] =
                 IF globalSemaphore.nil THEN "start" ELSE "acquire"]
    /\ UNCHANGED <<callVars, gateVars, cancelVars, outClosed, fIdx,
                   jobChClosed, wjob, wres, taskCtx, finpc, invoked>>

\* part_001:155-160 and the test of 163
WorkerPreCheck(w) ==
    /\ wpc[w] = "check"
    /\ IF poolDone
       THEN /\ SendResult(wjob[w], ErrSkipped)
            /\ UNCHANGED feederSaw
            /\ wpc' = [wpc EXCEPT ![w] = "recv"]
            /\ wjob' = [wjob EXCEPT ![w] = 0]
            /\ wlate' = [wlate EXCEPT ![w] = FALSE]
       ELSE /\ wpc' = [wpc EXCEPT ![w] =
                         IF globalSemaphore.nil THEN "start" ELSE "acquire"]
            /\ UNCHANGED <<sinkVars, wjob, wlate>>
    /\ UNCHANGED <<callVars, gateVars, cancelVars, outClosed, fIdx,
                   jobChClosed, wres, taskCtx, finpc, invoked>>

\* part_001:164-169: the select finds the gate full and poolCtx not done,
\* the worker blocks in it
WorkerPark(w) ==
    /\ wpc[w] = "acquire"
    /\ globalSemaphore.len = globalSemaphore.cap
    /\ ~poolDone
    /\ wpc' = [wpc EXCEPT ![w] = "parked"]
    /\ UNCHANGED <<callVars, gateVars, sinkVars, cancelVars, outClosed, fIdx,
                   jobChClosed, wjob, wres, taskCtx, finpc, invoked, wlate>>

\* variant of WorkerAcquire: the select has a default case, a worker that
\* finds the gate full goes on without a token
WorkerAcquireNoWait(w) ==
    /\ wpc[w] = "acquire"
    /\ IF globalSemaphore.len < globalSemaphore.cap
       THEN /\ globalSemaphore' = [globalSemaphore EXCEPT !.len = @ + 1]
            /\ held' = held + 1
       ELSE UNCHANGED gateVars
    /\ wpc' = [wpc EXCEPT ![w] = "start"]
    /\ UNCHANGED <<callVars, sinkVars, cancelVars, outClosed, fIdx,
                   jobChClosed, wjob, wres, taskCtx, finpc, invoked, wlate>>

\* part_001:165: the select finds room in the buffer of globalSemaphore and
\* sends; it may take this case also when poolCtx is done
WorkerAcquire(w) ==
    /\ wpc[w] = "acquire"
    /\ globalSemaphore.len < globalSemaphore.cap
    /\ globalSemaphore' = [globalSemaphore EXCEPT !.len = @ + 1]
    /\ held' = held + 1
    /\ wpc' = [wpc EXCEPT ![w] = "start"]
    /\ UNCHANGED <<callVars, sinkVars, cancelVars, outClosed, fIdx,
                   jobChClosed, wjob, wres, taskCtx, finpc, invoked, wlate>>

\* variant of WorkerAcquireCancelled: the "continue" after the skipped
\* result is missing, the worker runs the job without a token
WorkerAcquireCancelledNoContinue(w) ==
    /\ \/ wpc[w] = "acquire" /\ poolDone
       \/ wpc[w] = "woken"
    /\ SendResult(wjob[w], ErrSkipped)
    /\ UNCHANGED feederSaw
    /\ globalSemaphore' = [globalSemaphore EXCEPT !.len = @ + 1]
    /\ held' = held + 1
    /\ wpc' = [wpc EXCEPT ![w] = "start"]
    /\ UNCHANGED <<callVars, cancelVars, outClosed, fIdx, jobChClosed, wjob,
                   wres, taskCtx, finpc, invoked, wlate>>

\* variant of WorkerAcquireCancelled: the send on the gate is not in a
\* select with poolCtx.Done(), the worker waits for a token only
WorkerAcquireNoCancel(w) ==
    /\ FALSE
    /\ UNCHANGED vars

\* part_001:166-168: the select finds poolCtx done, or the worker blocked
\* in the select was woken by the close of poolCtx.Done()
WorkerAcquireCancelled(w) ==
    /\ \/ wpc[w] = "acquire" /\ poolDone
       \/ wpc[w] = "woken"
    /\ SendResult(wjob[w], ErrSkipped)
    /\ UNCHANGED feederSaw
    /\ wpc' = [wpc EXCEPT ![w] = "recv"]
    /\ wjob' = [wjob EXCEPT ![w] = 0]
    /\ UNCHANGED <<callVars, gateVars, cancelVars, outClosed, fIdx,
                   jobChClosed, wres, taskCtx, finpc, invoked, wlate>>

\* part_001:186-187: taskCtx.Done() is closed, by its own deadline, by its
\* cancel or by the end of poolCtx
TaskDone(w) == taskCtx[w] \in {"timeout", "cancelled"}

\* part_001:186-189: taskCtx is made and workerFunc is called
WorkerStart(w) ==
    /\ wpc[w] = "start"
    /\ taskCtx' = [taskCtx EXCEPT ![w] =
                     IF poolDone THEN "cancelled" ELSE "live"]
    /\ invoked' = [invoked EXCEPT ![wjob[w]] = @ + 1]
    /\ wpc' = [wpc EXCEPT ![w] = "run"]
    /\ UNCHANGED <<callVars, gateVars, sinkVars, cancelVars, outClosed, fIdx,
                   jobChClosed, wjob, wres, finpc, wlate>>

\* cfg.WorkerTimeout passes while workerFunc runs
ItemDeadline(w) ==
    /\ wpc[w] = "run"
    /\ taskCtx[w] = "live"
    /\ taskCtx' = [taskCtx EXCEPT ![w] = "timeout"]
    /\ UNCHANGED <<callVars, gateVars, sinkVars, cancelVars, outClosed, fIdx,
                   jobChClosed, wpc, wjob, wres, finpc, invoked, wlate>>

\* variant of OpReturn: the test of 191 does not look at cfg.StopOnError,
\* every returned error cancels the pool
OpReturnAlwaysCancel(w, e) ==
    /\ wpc[w] = "run"
    /\ e \in OpErrs
    /\ wres' = [wres EXCEPT ![w] = e]
    /\ IF e # NilErr
       THEN /\ SafeCancelPool
            /\ wpc' = Wake([wpc EXCEPT ![w] = "send"])
       ELSE /\ UNCHANGED <<cancelOnce, poolDone, taskCtx>>
            /\ wpc' = [wpc EXCEPT ![w] = "send"]
    /\ UNCHANGED <<callVars, gateVars, sinkVars, ctxDone, outClosed, fIdx,
                   jobChClosed, wjob, finpc, invoked, wlate>>

\* variant of OpReturn: the test of 191-193 is missing, a returned error
\* does not cancel the pool
OpReturnNoCancel(w, e) ==
    /\ wpc[w] = "run"
    /\ e \in OpErrs
    /\ wres' = [wres EXCEPT ![w] = e]
    /\ UNCHANGED <<cancelOnce, poolDone>>
    /\ wpc' = [wpc EXCEPT ![w] = "send"]
    /\ UNCHANGED <<callVars, gateVars, sinkVars, ctxDone, outClosed, fIdx,
                   jobChClosed, wjob, taskCtx, finpc, invoked, wlate>>

\* part_001:189-193: workerFunc returns; on an error with StopOnError the
\* worker cancels the pool
OpReturn(w, e) ==
    /\ wpc[w] = "run"
    /\ e \in OpErrs
    /\ wres' = [wres EXCEPT ![w] = e]
    /\ IF e # NilErr /\ cfg.StopOnError
       THEN /\ SafeCancelPool
            /\ wpc' = Wake([wpc EXCEPT ![w] = "send"])
       ELSE /\ UNCHANGED <<cancelOnce, poolDone, taskCtx>>
            /\ wpc' = [wpc EXCEPT ![w] = "send"]
    /\ UNCHANGED <<callVars, gateVars, sinkVars, ctxDone, outClosed, fIdx,
                   jobChClosed, wjob, finpc, invoked, wlate>>

\* variant of WorkerSend: the result of the call is dropped and the job is
\* reported as skipped
WorkerSendSkipped(w) ==
    /\ wpc[w] = "send"
    /\ SendResult(wjob[w], ErrSkipped)
    /\ UNCHANGED feederSaw
    /\ wpc' = [wpc EXCEPT ![w] = "release"]
    /\ UNCHANGED <<callVars, gateVars, cancelVars, outClosed, fIdx,
                   jobChClosed, wjob, wres, taskCtx, finpc, invoked, wlate>>

\* part_001:195
WorkerSend(w) ==
    /\ wpc[w] = "send"
    /\ SendResult(wjob[w], wres[w])
    /\ UNCHANGED feederSaw
    /\ wpc' = [wpc EXCEPT ![w] = "release"]
    /\ UNCHANGED <<callVars, gateVars, cancelVars, outClosed, fIdx,
                   jobChClosed, wjob, wres, taskCtx, finpc, invoked, wlate>>

\* variant of OpPanic: no recover, the panic ends the worker goroutine
OpPanicUncontained(w) ==
    /\ wpc[w] = "run"
    /\ wres' = [wres EXCEPT ![w] = PanicErr]
    /\ taskCtx' = [taskCtx EXCEPT ![w] = "cancelled"]
    /\ wpc' = [wpc EXCEPT ![w] = "done"]
    /\ UNCHANGED <<callVars, gateVars, sinkVars, cancelVars, outClosed, fIdx,
                   jobChClosed, wjob, finpc, invoked, wlate>>

\* part_001:189, 187, 178-179: workerFunc panics (with a value recover
\* returns as non-nil); unwinding runs the deferred cancel of taskCtx, then
\* the handler recovers the panic and sends
OpPanic(w) ==
    /\ wpc[w] = "run"
    /\ wres' = [wres EXCEPT ![w] = PanicErr]
    /\ taskCtx' = [taskCtx EXCEPT ![w] = "cancelled"]
    /\ SendResult(wjob[w], PanicErr)
    /\ UNCHANGED feederSaw
    /\ wpc' = [wpc EXCEPT ![w] = "pstop"]
    /\ UNCHANGED <<callVars, gateVars, cancelVars, outClosed, fIdx,
                   jobChClosed, wjob, finpc, invoked, wlate>>

\* variant of WorkerRecoverStop: the recover handler does not cancel the pool
WorkerRecoverNoStop(w) ==
    /\ wpc[w] = "pstop"
    /\ wpc' = [wpc EXCEPT ![w] = "release"]
    /\ UNCHANGED <<callVars, gateVars, sinkVars, cancelVars, outClosed, fIdx,
                   jobChClosed, wjob, wres, taskCtx, finpc, invoked, wlate>>

\* part_001:180-182
WorkerRecoverStop(w) ==
    /\ wpc[w] = "pstop"
    /\ IF cfg.StopOnError
       THEN /\ SafeCancelPool
            /\ wpc' = Wake([wpc EXCEPT ![w] = "release"])
       ELSE /\ UNCHANGED <<cancelOnce, poolDone, taskCtx>>
            /\ wpc' = [wpc EXCEPT ![w] = "release"]
    /\ UNCHANGED <<callVars, gateVars, sinkVars, ctxDone, outClosed, fIdx,
                   jobChClosed, wjob, wres, finpc, invoked, wlate>>

\* part_001:174: the receive that takes the run's token out of the gate; f
\* holds the positions of the workers after it. A sender blocked on the
\* full gate gets the place in the buffer in the same step: a worker of this
\* run blocked in the select of 164, or a sender of another caller.
TokenBack(f) ==
    IF Parked = {}
    THEN /\ globalSemaphore' = [globalSemaphore EXCEPT !.len = @ - 1]
         /\ held' = held - 1
         /\ wpc' = f
    ELSE \/ /\ \E p \in Parked : wpc' = [f EXCEPT ![p] = "start"]
            /\ UNCHANGED gateVars
         \/ /\ wpc' = f
            /\ held' = held - 1
            /\ UNCHANGED globalSemaphore

\* variant of WorkerRelease: the token is given back by a plain statement
\* after the call of workerFunc instead of a deferred one, so a panic
\* leaves it in the gate
WorkerReleaseNoDefer(w) ==
    /\ wpc[w] = "release"
    /\ taskCtx' = [taskCtx EXCEPT ![w] = "none"]
    /\ IF globalSemaphore.nil \/ wres[w] = PanicErr
       THEN /\ UNCHANGED gateVars
            /\ wpc' = [wpc EXCEPT ![w] = "recv"]
       ELSE /\ globalSemaphore.len > 0
            /\ TokenBack([wpc EXCEPT ![w] = "recv"])
    /\ wjob' = [wjob EXCEPT ![w] = 0]
    /\ wres' = [wres EXCEPT ![w] = NilErr]
    /\ UNCHANGED <<callVars, sinkVars, cancelVars, outClosed, fIdx,
                   jobChClosed, finpc, invoked, wlate>>

\* part_001:187, 178 with r = nil, 174: the remaining deferred calls of the
\* per-job closure (cancel of taskCtx, the token taken back from the gate),
\* then the loop goes on to the next receive
WorkerRelease(w) ==
    /\ wpc[w] = "release"
    /\ taskCtx' = [taskCtx EXCEPT ![w] = "none"]
    /\ IF globalSemaphore.nil
       THEN /\ UNCHANGED gateVars
            /\ wpc' = [wpc EXCEPT ![w] = "recv"]
       ELSE /\ globalSemaphore.len > 0
            /\ TokenBack([wpc EXCEPT ![w] = "recv"])
    /\ wjob' = [wjob EXCEPT ![w] = 0]
    /\ wres' = [wres EXCEPT ![w] = NilErr]
    /\ UNCHANGED <<callVars, sinkVars, cancelVars, outClosed, fIdx,
                   jobChClosed, finpc, invoked, wlate>>

\* ------------------------------------------------- cancellation triggers
\* the caller cancels ctx while the run is on; poolCtx is its child (128).
\* A cancellation of ctx after poolCtx is done changes nothing the run reads.
ParentCancel ==
    /\ path = "pool"
    /\ ~poolDone
    /\ ctxDone' = TRUE
    /\ poolDone' = TRUE
    /\ taskCtx' = CancelTasks(taskCtx)
    /\ wpc' = Wake(wpc)
    /\ UNCHANGED <<callVars, gateVars, sinkVars, cancelOnce, outClosed, fIdx,
                   jobChClosed, wjob, wres, finpc, invoked, wlate>>

\* part_001:128: cfg.GlobalTimeout passes
BatchDeadline ==
    /\ path = "pool"
    /\ ~poolDone
    /\ poolDone' = TRUE
    /\ taskCtx' = CancelTasks(taskCtx)
    /\ wpc' = Wake(wpc)
    /\ UNCHANGED <<callVars, gateVars, sinkVars, ctxDone, cancelOnce,
                   outClosed, fIdx, jobChClosed, wjob, wres, finpc, invoked,
                   wlate>>

\* -------------------------------------------- other users of the gate
\* tokens the gate holds for other callers
ExtTokens == globalSemaphore.len - held

ExtAcquire ==
    /\ path = "pool"
    /\ outClosed = 0
    /\ ~globalSemaphore.nil
    /\ globalSemaphore.len < globalSemaphore.cap
    /\ globalSemaphore' = [globalSemaphore EXCEPT !.len = @ + 1]
    /\ UNCHANGED <<callVars, sinkVars, cancelVars, outClosed, fIdx,
                   jobChClosed, wpc, wjob, wres, taskCtx, finpc, held,
                   invoked, wlate>>

\* another caller takes its token back; a worker of this run blocked in
\* the select of 164 gets the place in the same step
ExtRelease ==
    /\ path = "pool"
    /\ outClosed = 0
    /\ ~globalSemaphore.nil
    /\ ExtTokens > 0
    /\ IF Parked = {}
       THEN /\ globalSemaphore' = [globalSemaphore EXCEPT !.len = @ - 1]
            /\ UNCHANGED <<held, wpc>>
       ELSE /\ \E p \in Parked : wpc' = [wpc EXCEPT ![p] = "start"]
            /\ held' = held + 1
            /\ UNCHANGED globalSemaphore
    /\ UNCHANGED <<callVars, sinkVars, cancelVars, outClosed, fIdx,
                   jobChClosed, wjob, wres, taskCtx, finpc, invoked, wlate>>

\* -------------------------------------------------------------- finalizer
\* part_001:218
FinWaitFeeder ==
    /\ finpc = "waitFeeder"
    /\ jobChClosed
    /\ finpc' = "waitWorkers"
    /\ UNCHANGED <<callVars, gateVars, sinkVars, cancelVars, outClosed, fIdx,
                   jobChClosed, wpc, wjob, wres, taskCtx, invoked, wlate>>

\* variant of FinWaitWorkers: the finalizer does not wait for the workers
FinNoWaitWorkers ==
    /\ finpc = "waitWorkers"
    /\ finpc' = "cancel"
    /\ UNCHANGED <<callVars, gateVars, sinkVars, cancelVars, outClosed, fIdx,
                   jobChClosed, wpc, wjob, wres, taskCtx, invoked, wlate>>

\* part_001:219
FinWaitWorkers ==
    /\ finpc = "waitWorkers"
    /\ \A w \in Workers : wpc[w] = "done"
    /\ finpc' = "cancel"
    /\ UNCHANGED <<callVars, gateVars, sinkVars, cancelVars, outClosed, fIdx,
                   jobChClosed, wpc, wjob, wres, taskCtx, invoked, wlate>>

\* part_001:220
FinCancel ==
    /\ finpc = "cancel"
    /\ poolDone' = TRUE
    /\ taskCtx' = CancelTasks(taskCtx)
    /\ finpc' = "close"
    /\ UNCHANGED <<callVars, gateVars, sinkVars, ctxDone, cancelOnce,
                   outClosed, fIdx, jobChClosed, wpc, wjob, wres, invoked,
                   wlate>>

\* part_001:221
FinClose ==
    /\ finpc = "close"
    /\ outClosed' = outClosed + 1
    /\ finpc' = "done"
    /\ UNCHANGED <<callVars, gateVars, sinkVars, cancelVars, fIdx,
                   jobChClosed, wpc, wjob, wres, taskCtx, invoked, wlate>>

\* ----------------------------------------------------------- specification
WorkerStep(w) ==
    \/ WorkerExit(w)
    \/ WorkerPreCheck(w)
    \/ WorkerPark(w)
    \/ WorkerAcquire(w)
    \/ WorkerAcquireCancelled(w)
    \/ WorkerStart(w)
    \/ WorkerSend(w)
    \/ WorkerRecoverStop(w)
    \/ WorkerRelease(w)

Next ==
    \/ Submit
    \/ PreflightSend
    \/ PreflightClose
    \/ \E w \in WorkerSlots : FeederHandoff(w)
    \/ FeederSkip
    \/ FeederClose
    \/ \E w \in WorkerSlots : WorkerStep(w)
    \/ \E w \in WorkerSlots : ItemDeadline(w)
    \/ \E w \in WorkerSlots : \E e \in OpErrs : OpReturn(w, e)
    \/ \E w \in WorkerSlots : OpPanic(w)
    \/ ParentCancel
    \/ BatchDeadline
    \/ ExtAcquire
    \/ ExtRelease
    \/ FinWaitFeeder
    \/ FinWaitWorkers
    \/ FinCancel
    \/ FinClose

Spec == Init /\ [][Next]_vars

\* Scheduling: the Go runtime runs every goroutine that can take a step
\* (the pre-flight goroutine, the feeder, each worker, the finalizer), and
\* every workerFunc that was called comes back, by a return or by a panic.
\* Nothing is assumed about the deadlines, the caller's cancel or the other
\* users of the gate.
Fairness ==
    /\ WF_vars(Submit \/ PreflightSend \/ PreflightClose)
    /\ WF_vars(FeederSkip \/ FeederClose
                 \/ \E w \in WorkerSlots : FeederHandoff(w))
    /\ \A w \in WorkerSlots :
           WF_vars(WorkerStep(w) \/ OpPanic(w)
                     \/ \E e \in OpErrs : OpReturn(w, e))
    /\ WF_vars(FinWaitFeeder \/ FinWaitWorkers \/ FinCancel \/ FinClose)

FairSpec == Spec /\ Fairness

\* the calls without a gate or with an unbuffered one, on which no send
\* goes through: a worker that reaches it waits for poolCtx to be done
InitTimed == Init /\ globalSemaphore.cap = 0

\* a step of one of the goroutines of such a call, or the timer of poolCtx
\* (128) firing
Progress ==
    \/ Submit
    \/ PreflightSend
    \/ PreflightClose
    \/ \E w \in WorkerSlots : FeederHandoff(w)
    \/ FeederSkip
    \/ FeederClose
    \/ \E w \in WorkerSlots :
          \/ WorkerExit(w)
          \/ WorkerPreCheck(w)
          \/ WorkerPark(w)
          \/ WorkerAcquireCancelled(w)
          \/ WorkerStart(w)
          \/ \E e \in OpErrs : OpReturn(w, e)
          \/ OpPanic(w)
          \/ WorkerSend(w)
          \/ WorkerRecoverStop(w)
          \/ WorkerRelease(w)
    \/ FinWaitFeeder
    \/ FinWaitWorkers
    \/ FinCancel
    \/ FinClose
    \/ BatchDeadline

NextTimed ==
    \/ Progress
    \/ \E w \in WorkerSlots : ItemDeadline(w)
    \/ ParentCancel

\* Scheduling, the least the Go runtime gives: while some goroutine can
\* take a step or the timer of poolCtx is running, one of these happens; a
\* workerFunc that was called comes back. Nothing is received from outCh.
TimedSpec == InitTimed /\ [][NextTimed]_vars /\ WF_vars(Progress)

\* the runs with cfg.StopOnError set, under the same scheduling
InitAbort == Init /\ cfg.StopOnError

AbortSpec == InitAbort /\ [][Next]_vars /\ Fairness

\* ------------------------------------------- configuration and timeouts
\* what a caller can put in the configuration: any sign of NumWorkers and
\* the durations of RawDurations
RawConfigs ==
    [NumWorkers : (0 - 1)..MaxWorkers, StopOnError : {FALSE},
     WorkerTimeout : RawDurations, GlobalTimeout : RawDurations]

\* one job, a live parent context, no gate, any configuration
InitCfg ==
    /\ jobs = <<1>>
    /\ ctxDone = FALSE
    /\ ctxAtCall = FALSE
    /\ cfg \in RawConfigs
    /\ supplied = {cfg}
    /\ globalSemaphore = [nil |-> TRUE, cap |-> 0, len |-> 0]
    /\ InitRun

\* part_001:186: context.WithTimeout on a parent whose deadline comes first
\* keeps the parent's deadline; left is the time poolCtx has left, t the
\* timeout asked for
TaskTimeout(left, t) == IF Less64(left, t) THEN left ELSE t

\* part_001:186 at a moment when poolCtx, made at 128 with
\* cfg.GlobalTimeout, has some of its time left
DeriveTaskCtx ==
    /\ path = "pool"
    /\ taskLeft = {}
    /\ \E left \in RawDurations :
          /\ Less64(Zero64, left)
          /\ ~Less64(cfg.GlobalTimeout, left)
          /\ taskLeft' = {[left |-> left,
                           timeout |-> TaskTimeout(left, cfg.WorkerTimeout)]}
    /\ UNCHANGED <<jobs, ctxDone, ctxAtCall, cfg, supplied, globalSemaphore,
                   path, outCh, outCap, outClosed, pfIdx, pfErr, fIdx,
                   jobChClosed, wpc, wjob, wres, taskCtx, poolDone,
                   cancelOnce, sentResults, finpc, held, invoked, wlate,
                   skipCalls, feederSaw, sendCalls>>

NextCfg == Submit \/ DeriveTaskCtx

CfgSpec == InitCfg /\ [][NextCfg]_vars

\* ------------------------------------------------ the contexts of the jobs
\* batches of one or two jobs with distinct IDs, a live parent context, no
\* gate; timeouts left unset or set on either side of each other
InitTask ==
    /\ jobs \in {b \in Batches : Len(b) \in 1..2 /\ DuplicateIndex(b) = 0}
    /\ ctxDone = FALSE
    /\ ctxAtCall = FALSE
    /\ cfg \in [NumWorkers : 0..MaxWorkers, StopOnError : BOOLEAN,
                WorkerTimeout : {Zero64, Times64(20, Second)},
                GlobalTimeout : {Zero64, Times64(10, Second)}]
    /\ supplied = {cfg}
    /\ globalSemaphore = [nil |-> TRUE, cap |-> 0, len |-> 0]
    /\ InitRun

\* part_001:186 reached by a worker while poolCtx is live: the timeout of
\* the taskCtx it makes
StartDerive ==
    /\ \E w \in WorkerSlots : wpc[w] = "start"
    /\ ~poolDone
    /\ DeriveTaskCtx

\* the steps of a run without a gate, with the timeout of one taskCtx noted
NextTask ==
    \/ Submit
    \/ \E w \in WorkerSlots : FeederHandoff(w)
    \/ FeederSkip
    \/ FeederClose
    \/ \E w \in WorkerSlots :
          \/ WorkerExit(w)
          \/ WorkerPreCheck(w)
          \/ WorkerStart(w)
          \/ ItemDeadline(w)
          \/ \E e \in OpErrs : OpReturn(w, e)
          \/ OpPanic(w)
          \/ WorkerSend(w)
          \/ WorkerRecoverStop(w)
          \/ WorkerRelease(w)
    \/ StartDerive
    \/ ParentCancel
    \/ BatchDeadline
    \/ FinWaitFeeder
    \/ FinWaitWorkers
    \/ FinCancel
    \/ FinClose

TaskSpec == InitTask /\ [][NextTask]_vars

\* ------------------------------------------------------- undisturbed runs
\* batches with pairwise distinct IDs, submitted with a live parent context
InitSuccess ==
    /\ Init
    /\ ~ctxDone
    /\ \A i, j \in 1..N : i # j => jobs[i] # jobs[j]

\* the steps of a run in which every workerFunc call returns a nil error,
\* the caller never cancels ctx and no deadline expires: poolCtx is done
\* only by the finalizer, so no skip path is taken
NextSuccess ==
    \/ Submit
    \/ \E w \in WorkerSlots : FeederHandoff(w)
    \/ FeederClose
    \/ \E w \in WorkerSlots :
          \/ WorkerExit(w)
          \/ WorkerPreCheck(w)
          \/ WorkerPark(w)
          \/ WorkerAcquire(w)
          \/ WorkerStart(w)
          \/ OpReturn(w, NilErr)
          \/ WorkerSend(w)
          \/ WorkerRelease(w)
    \/ ExtAcquire
    \/ ExtRelease
    \/ FinWaitFeeder
    \/ FinWaitWorkers
    \/ FinCancel
    \/ FinClose

SuccessSpec == InitSuccess /\ [][NextSuccess]_vars

\* ----------------------------------------------------- the sink on its own
\* a batch with pairwise distinct IDs on its way to the pool
InitSink ==
    /\ InitSuccess
    /\ N > 0
    /\ cfg.NumWorkers = 1 /\ ~cfg.StopOnError
    /\ globalSemaphore.nil

\* part_001:141-145 called by any goroutine, for any job of the batch, with
\* any Err, any number of times up to MaxAttempts: the sink as made at
\* 139-145, whoever its callers are
SinkCall(id, err) ==
    /\ path = "pool"
    /\ \E i \in 1..N : jobs[i] = id
    /\ sendCalls[id] < MaxAttempts
    /\ SendResult(id, err)
    /\ UNCHANGED feederSaw
    /\ UNCHANGED <<callVars, gateVars, cancelVars, outClosed, fIdx,
                   jobChClosed, wpc, wjob, wres, taskCtx, finpc, invoked,
                   wlate>>

NextSink ==
    \/ Submit
    \/ \E id \in JobIDs :
          \E err \in {NilErr, OpErr, PanicErr, ErrSkipped} : SinkCall(id, err)

SinkSpec == InitSink /\ [][NextSink]_vars

\* ================================================================ claims
Closed == outClosed >= 1

\* the submitted IDs are pairwise distinct
DistinctIDs == \A i, j \in 1..N : i # j => jobs[i] # jobs[j]

RECURSIVE SumCopies(_)
SumCopies(S) ==
    IF S = {} THEN 0
    ELSE LET e == CHOOSE x \in S : TRUE
         IN  CopiesIn(e, outCh) + SumCopies(S \ {e})

\* number of results on outCh that carry the ID
OutCount(id) == SumCopies({e \in BagToSet(outCh) : e.ID = id})

\* number of submitted jobs that carry the ID
JobCount(id) == Cardinality({i \in 1..N : jobs[i] = id})

\* Errs of the results on outCh
OutErrs == {e.Err : e \in BagToSet(outCh)}

NoneInvoked == \A id \in JobIDs : invoked[id] = 0

NoWorkerStarted == \A w \in WorkerSlots : wpc[w] = "none"

\* C1: a non-empty batch with pairwise distinct IDs, submitted with a
\* parent context that is not cancelled, never has more results for an ID
\* than jobs with that ID, and when outCh is closed it holds exactly N
\* results, as many for each ID as there are jobs with that ID.
C1_ExactlyOnePerJob ==
    (N > 0 /\ DistinctIDs /\ ~ctxAtCall) =>
        /\ \A id \in JobIDs : OutCount(id) <= JobCount(id)
        /\ Closed =>
              /\ BagCardinality(outCh) = N
              /\ \A id \in JobIDs : OutCount(id) = JobCount(id)

C1_Witness ==
    /\ N = 3 /\ DistinctIDs /\ ~ctxAtCall
    /\ Closed
    /\ ErrSkipped \in OutErrs
    /\ NilErr \in OutErrs

\* C2: outCh is closed at most once; on the pool path the close happens
\* only when the feeder and every worker are done and cancelPool has run;
\* once outCh is closed nothing is sent on it and it is not closed again;
\* every result a worker or the feeder has handed to sendResult is on outCh.
C2_CloseOnceAfterAll ==
    [][/\ outClosed' <= 1
       /\ Closed => (outCh' = outCh /\ outClosed' = outClosed)
       /\ (path = "pool" /\ outClosed' > outClosed) =>
              /\ jobChClosed
              /\ \A w \in Workers : wpc[w] = "done"
              /\ poolDone
              /\ \A id \in JobIDs : sendCalls[id] > 0 => OutCount(id) > 0
       /\ (path \in {"dup", "skipall"} /\ outClosed' > outClosed) =>
              BagCardinality(outCh) = N]_vars

C2_Witness ==
    /\ path = "pool"
    /\ outClosed = 1
    /\ BagCardinality(outCh) = 3
    /\ cfg.NumWorkers = 2

\* C3: a batch with a repeated ID takes the rejection path: no workerFunc
\* call, no token taken, every result carries the duplicate-ID error, the
\* goroutine sends without blocking, and at the close there is one result
\* per submitted job.
C3_DuplicateRejectsAll ==
    (~DistinctIDs /\ path # "call") =>
        /\ path = "dup"
        /\ NoneInvoked
        /\ NoWorkerStarted
        /\ held = 0 /\ globalSemaphore.len = 0
        /\ \A e \in OutErrs : e[1] = "dup"
        /\ ~Closed => (pfIdx \in 1..(N + 1)
                         /\ BagCardinality(outCh) = pfIdx - 1)
        /\ Closed =>
              /\ BagCardinality(outCh) = N
              /\ \A id \in JobIDs : OutCount(id) = JobCount(id)

C3_Witness ==
    /\ N = 3
    /\ jobs[1] # jobs[2] /\ jobs[3] = jobs[1]
    /\ Closed
    /\ BagCardinality(outCh) = 3

\* C4 as stated: whatever the batch, a parent context cancelled at the
\* submission gives N results with ErrSkipped and no workerFunc call.
C4_Original ==
    (ctxAtCall /\ Closed) =>
        /\ BagCardinality(outCh) = N
        /\ OutErrs \subseteq {ErrSkipped}
        /\ NoneInvoked
        /\ NoWorkerStarted

\* C4 amended: for a batch with pairwise distinct IDs, a parent context
\* cancelled at the submission gives no worker, no workerFunc call, only
\* results with ErrSkipped, sent without blocking, and at the close one
\* result per submitted job.
C4_CancelledParentSkipsAll ==
    (ctxAtCall /\ DistinctIDs /\ path # "call") =>
        /\ path \in {"empty", "skipall"}
        /\ NoneInvoked
        /\ NoWorkerStarted
        /\ held = 0
        /\ OutErrs \subseteq {ErrSkipped}
        /\ (N > 0 /\ ~Closed) => (pfIdx \in 1..(N + 1)
                                    /\ BagCardinality(outCh) = pfIdx - 1)
        /\ Closed =>
              /\ BagCardinality(outCh) = N
              /\ \A id \in JobIDs : OutCount(id) = JobCount(id)

C4_Witness ==
    /\ ctxAtCall /\ DistinctIDs
    /\ N = 3
    /\ Closed
    /\ OutErrs = {ErrSkipped}

\* C5: for an empty batch the call returns outCh closed and empty, whatever
\* ctx, the gate and cfg are, and nothing is started: no pre-flight
\* goroutine, feeder, worker or finalizer, no workerFunc call, no token.
C5_EmptyBatchClosedAtReturn ==
    (N = 0 /\ path # "call") =>
        /\ path = "empty"
        /\ outClosed = 1
        /\ outCh = EmptyBag
        /\ pfIdx = 0 /\ fIdx = 0 /\ finpc = "none"
        /\ NoWorkerStarted
        /\ NoneInvoked
        /\ held = 0 /\ globalSemaphore.len = 0

C5_Witness ==
    /\ N = 0
    /\ path = "empty"
    /\ ctxAtCall
    /\ ~globalSemaphore.nil
    /\ outClosed = 1

\* the result is on outCh
Sent(id, err) == BagIn([ID |-> id, Err |-> err], outCh)

\* the worker's operation has failed: by an error, or by a panic
Failed(w) == wpc[w] \in {"send", "pstop", "release"} /\ wres[w] # NilErr

\* an operation has failed under StopOnError while the feeder still has two
\* or more jobs to offer
AbortWithQueued ==
    /\ path = "pool"
    /\ cfg.StopOnError
    /\ \E w \in Workers : Failed(w)
    /\ fIdx <= N - 1

\* every submitted job has exactly one result, ErrSkipped for a job whose
\* workerFunc was never called and the result of its one call otherwise
Resolved ==
    /\ BagCardinality(outCh) = N
    /\ \A i \in 1..N :
          /\ OutCount(jobs[i]) = 1
          /\ Sent(jobs[i], ErrSkipped) <=> invoked[jobs[i]] = 0
          /\ invoked[jobs[i]] <= 1

C7_AbortBeforeNextItem ==
    [][\A w \in WorkerSlots :
         /\ (cfg.StopOnError /\ Failed(w) /\ wpc'[w] = "recv") => poolDone
         /\ (wpc[w] = "recv" /\ wpc'[w] = "check") => (wlate'[w] <=> poolDone)
         /\ (wlate[w] /\ wpc'[w] # wpc[w]) =>
                /\ wpc'[w] = "recv"
                /\ BagIn([ID |-> wjob[w], Err |-> ErrSkipped], outCh')
                /\ invoked' = invoked
                /\ held' = held
         /\ (wpc[w] = "run" /\ wpc'[w] # "run") => wpc'[w] \in {"send", "pstop"}
         /\ (wpc[w] = "send" /\ wpc'[w] # "send") =>
                BagIn([ID |-> wjob[w], Err |-> wres[w]], outCh')]_vars

C7_Witness ==
    /\ cfg.StopOnError
    /\ cancelOnce
    /\ \E w1, w2 \in Workers :
          /\ wpc[w1] = "check" /\ wlate[w1]
          /\ wpc[w2] = "send" /\ wres[w2] = NilErr
    /\ \E id \in JobIDs : Sent(id, PanicErr)

\* C8: a panic of workerFunc adds exactly the panic result of that job to
\* outCh; the worker that recovered goes on to release and to the next
\* receive; and when outCh is closed after a panic every submitted job has
\* exactly one result.
C8_PanicContained ==
    [][/\ \A w \in WorkerSlots :
            /\ (wpc[w] = "run" /\ wpc'[w] \notin {"run", "send"}) =>
                   /\ wpc'[w] = "pstop"
                   /\ outCh' = outCh (+)
                         SetToBag({[ID |-> wjob[w], Err |-> PanicErr]})
                   /\ OutCount(wjob[w]) = 0
            /\ (wpc[w] = "pstop" /\ wpc'[w] # "pstop") => wpc'[w] = "release"
            /\ (wpc[w] = "release" /\ wpc'[w] # "release") => wpc'[w] = "recv"
       /\ (outClosed' > outClosed /\ PanicErr \in OutErrs) =>
              \A i \in 1..N : OutCount(jobs[i]) = 1]_vars

C8_Witness ==
    /\ path = "pool" /\ N = 3
    /\ cfg.NumWorkers = 1
    /\ ~cfg.StopOnError
    /\ Closed
    /\ Sent(jobs[1], PanicErr)
    /\ Sent(jobs[2], NilErr)
    /\ Sent(jobs[3], OpErr)

\* C9 as stated: once poolCtx is done no workerFunc is called.
C9_NoInvokeAfterCancel ==
    [][poolDone => invoked' = invoked]_vars

\* C10: an ID for which sendResult was called with ErrSkipped, or that has
\* an ErrSkipped result on outCh, is the ID of a job whose workerFunc was
\* never called.
C10_SkippedNeverInvoked ==
    \A id \in JobIDs :
        (id \in skipCalls \/ Sent(id, ErrSkipped)) => invoked[id] = 0

C10_Witness ==
    /\ path = "pool"
    /\ ~globalSemaphore.nil
    /\ \E id \in JobIDs : invoked[id] = 1 /\ OutCount(id) = 1
    /\ \E id \in JobIDs : id \in skipCalls /\ Sent(id, ErrSkipped)
    /\ fIdx = N + 1

\* ---------------------------------------------------------------- C11
\* the workers of the run that are inside the per-job closure 172-196, from
\* the acquisition of 164 to the deferred release of 174
InClosure ==
    {w \in WorkerSlots : wpc[w] \in {"start", "run", "send", "pstop", "release"}}

\* C11: the tokens the run holds in the gate are exactly one per worker that
\* is between the acquisition and the deferred release of its current job,
\* whatever the way the call ended (return, error, panic, with or without
\* StopOnError); a worker elsewhere (receiving, on a skip path, waiting at
\* the gate, finished) holds none; the tokens held never exceed the jobs in
\* progress nor the gate's capacity, and none is held once outCh is closed.
C11_TokenReleasedOnce ==
    /\ held = (IF globalSemaphore.nil THEN 0 ELSE Cardinality(InClosure))
    /\ held <= Cardinality({w \in WorkerSlots : wjob[w] # 0})
    /\ held <= globalSemaphore.len
    /\ globalSemaphore.len <= globalSemaphore.cap
    /\ Closed => held = 0

C11_Witness ==
    /\ path = "pool" /\ N = 3
    /\ ~globalSemaphore.nil
    /\ cfg.StopOnError
    /\ Closed
    /\ held = 0
    /\ Sent(jobs[1], NilErr)
    /\ Sent(jobs[2], PanicErr)
    /\ Sent(jobs[3], ErrSkipped)

\* ---------------------------------------------------------------- C12
\* the caller supplied a positive GlobalTimeout and a longer WorkerTimeout
LongItemTimeout(c) ==
    /\ Less64(Zero64, c.GlobalTimeout)
    /\ Less64(c.GlobalTimeout, c.WorkerTimeout)

\* C12 as stated: a WorkerTimeout supplied longer than the GlobalTimeout is
\* clamped: the batch timeout stays the supplied one, the item timeout is
\* not above it, and a taskCtx ends no later than the supplied batch timeout.
C12_Original ==
    \A c \in supplied :
        (path = "pool" /\ LongItemTimeout(c)) =>
            /\ cfg.GlobalTimeout = c.GlobalTimeout
            /\ ~Less64(cfg.GlobalTimeout, cfg.WorkerTimeout)
            /\ \A d \in taskLeft : ~Less64(c.GlobalTimeout, d.timeout)

\* C12 amended: a WorkerTimeout supplied longer than a positive supplied
\* GlobalTimeout is kept as it is, and the batch timeout is raised to twice
\* the WorkerTimeout, the product taken on int64; a taskCtx ends no later
\* than poolCtx, made with the raised timeout, and no later than its
\* WorkerTimeout.
C12_LongItemTimeoutRaisesBatch ==
    \A c \in supplied :
        (path = "pool" /\ LongItemTimeout(c)) =>
            /\ cfg.WorkerTimeout = c.WorkerTimeout
            /\ cfg.GlobalTimeout = Times64(2, c.WorkerTimeout)
            /\ cfg.GlobalTimeout # c.GlobalTimeout
            /\ \A d \in taskLeft :
                  /\ ~Less64(d.left, d.timeout)
                  /\ ~Less64(cfg.WorkerTimeout, d.timeout)
                  /\ ~Less64(cfg.GlobalTimeout, d.timeout)

C12_Witness ==
    /\ path = "pool"
    /\ \E c \in supplied :
          /\ c.GlobalTimeout = Times64(10, Second)
          /\ c.WorkerTimeout = Times64(20, Second)
    /\ cfg.GlobalTimeout = Times64(40, Second)
    /\ \E d \in taskLeft :
          d.left = Times64(30, Second) /\ d.timeout = Times64(20, Second)

\* ---------------------------------------------------------------- C13
\* C13 as stated: whatever the configuration supplied, after the defaults
\* NumWorkers >= 1, WorkerTimeout > 0, GlobalTimeout > 0 and
\* WorkerTimeout <= GlobalTimeout.
C13_ResolvedInRange ==
    (path = "pool" /\ supplied # {}) =>
        /\ cfg.NumWorkers >= 1
        /\ Less64(Zero64, cfg.WorkerTimeout)
        /\ Less64(Zero64, cfg.GlobalTimeout)
        /\ ~Less64(cfg.GlobalTimeout, cfg.WorkerTimeout)

\* ---------------------------------------------------------------- C14
\* the results of a batch whose calls all succeed: one per job, Err nil
SuccessResults == SetToBag({[ID |-> jobs[i], Err |-> NilErr] : i \in 1..N})

\* C14: for a batch with pairwise distinct IDs whose workerFunc calls all
\* return nil at once, with a parent context never cancelled and no deadline
\* expiring, outCh never holds anything but successes of submitted jobs, at
\* most one per job, and at the close it holds exactly one success per
\* submitted ID: the final result is a function of the batch alone, the
\* same for every interleaving, every NumWorkers and every gate.
C14_SameFinalResult ==
    /\ outCh \sqsubseteq SuccessResults
    /\ Closed => outCh = SuccessResults

C14_Witness ==
    /\ path = "pool" /\ N = 3
    /\ cfg.NumWorkers = 2
    /\ ~globalSemaphore.nil
    /\ Closed
    /\ outCh = SuccessResults

\* ---------------------------------------------------------------- C15
\* C15: whatever the number and the order of the sendResult calls made for
\* an ID, outCh holds at most one result with that ID, and it holds one as
\* soon as a call was made; the first call for an ID stores the ID and puts
\* its result on outCh in the same step, every later call for that ID
\* leaves outCh and the map as they are.
C15_AtMostOnePerID ==
    /\ [](\A id \in JobIDs :
            OutCount(id) = (IF sendCalls[id] > 0 THEN 1 ELSE 0))
    /\ [][\A id \in JobIDs :
            sendCalls'[id] = sendCalls[id] + 1 =>
                IF sendCalls[id] = 0
                THEN /\ sentResults' = sentResults \cup {id}
                     /\ \E e \in {NilErr, OpErr, PanicErr, ErrSkipped} :
                           outCh' = outCh (+) SetToBag({[ID |-> id, Err |-> e]})
                ELSE /\ outCh' = outCh
                     /\ sentResults' = sentResults]_vars

C15_Witness ==
    /\ N = 3
    /\ \A id \in JobIDs : sendCalls[id] = MaxAttempts
    /\ Sent(1, ErrSkipped)
    /\ Sent(2, NilErr)
    /\ Sent(3, PanicErr)
    /\ BagCardinality(outCh) = 3
    /\ skipCalls = {1, 2}

\* ---------------------------------------------------------------- C16
\* the workerFunc calls of the run that have not come back
Running == {w \in WorkerSlots : wpc[w] = "run"}

\* C16: with a gate shared with other callers, each of which holds one
\* token of the gate per workerFunc call of its own (ExtTokens in all), the
\* calls in progress of this run and of the others together never exceed
\* the capacity of the gate, because each call of this run holds a token of
\* its own; the calls of this run never exceed NumWorkers; the run only
\* sends to the gate and receives from it (165, 174), it takes out no token
\* but its own, and it has none left in the gate once outCh is closed.
C16_SharedGateBound ==
    path = "pool" =>
        /\ Cardinality(Running) <= cfg.NumWorkers
        /\ ~globalSemaphore.nil =>
              /\ Cardinality(Running) <= held
              /\ Cardinality(Running) + ExtTokens <= globalSemaphore.cap
              /\ ExtTokens >= 0
              /\ Closed => (held = 0 /\ globalSemaphore.len = ExtTokens)

C16_Witness ==
    /\ path = "pool"
    /\ ~globalSemaphore.nil
    /\ Cardinality(Running) = 1
    /\ ExtTokens = globalSemaphore.cap - 1
    /\ Parked # {}

\* ---------------------------------------------------------------- C17
\* C17: a worker that has taken a job and finds poolCtx done at the check
\* of 155-160 calls sendResult with ErrSkipped for that job, which puts the
\* result on outCh, and goes back to receive the next job; the step sends
\* nothing to the gate, takes no token, makes no taskCtx and calls no
\* workerFunc. A worker that took its job when poolCtx was already done is
\* nowhere but at that check.
C17_PreCheckSkips ==
    /\ [](\A w \in WorkerSlots : wlate[w] => (wpc[w] = "check" /\ poolDone))
    /\ [][\A w \in WorkerSlots :
            (wpc[w] = "check" /\ poolDone /\ wpc'[w] # "check") =>
                /\ wpc'[w] = "recv"
                /\ wjob'[w] = 0
                /\ sendCalls'[wjob[w]] = sendCalls[wjob[w]] + 1
                /\ wjob[w] \in skipCalls'
                /\ outCh' = outCh (+) SetToBag({[ID |-> wjob[w],
                                                Err |-> ErrSkipped]})
                /\ UNCHANGED <<globalSemaphore, held, invoked, taskCtx>>]_vars

C17_Witness ==
    /\ path = "pool" /\ N = 2
    /\ globalSemaphore.nil
    /\ ~feederSaw
    /\ cfg.NumWorkers = 1
    /\ Sent(jobs[1], ErrSkipped)
    /\ wpc[1] = "check" /\ wlate[1] /\ wjob[1] = jobs[2]
    /\ NoneInvoked

\* ---------------------------------------------------------------- C18
\* C18: a worker is blocked at the gate only while poolCtx is not done and
\* the gate is full; the step that makes poolCtx done ends the wait of every
\* worker blocked at the gate; such a worker then calls sendResult with
\* ErrSkipped for its job, which puts the result on outCh, and goes back to
\* receive the next job, without a token and without a workerFunc call;
\* and from there on outCh gets closed, whether or not the gate ever has
\* room again.
C18_GateWaitEnds ==
    /\ [](\A w \in WorkerSlots :
            wpc[w] = "parked" =>
                (~poolDone /\ globalSemaphore.len = globalSemaphore.cap))
    /\ [][\A w \in WorkerSlots :
            /\ (wpc[w] = "parked" /\ poolDone') => wpc'[w] = "woken"
            /\ (wpc[w] = "woken" /\ wpc'[w] # "woken") =>
                  /\ wpc'[w] = "recv"
                  /\ wjob'[w] = 0
                  /\ sendCalls'[wjob[w]] = sendCalls[wjob[w]] + 1
                  /\ outCh' = outCh (+) SetToBag({[ID |-> wjob[w],
                                                  Err |-> ErrSkipped]})
                  /\ UNCHANGED <<globalSemaphore, held, invoked, taskCtx>>]_vars
    /\ (\E w \in WorkerSlots : wpc[w] = "woken") ~> Closed

C18_Witness ==
    /\ path = "pool"
    /\ globalSemaphore.cap > 0
    /\ ExtTokens = globalSemaphore.cap
    /\ \E w \in WorkerSlots : wpc[w] = "woken" /\ invoked[wjob[w]] = 0
    /\ \E id \in JobIDs : invoked[id] = 1 /\ Sent(id, OpErr)

\* ---------------------------------------------------------------- C19
\* the step hands a job to worker w
Handoff(w) == wpc[w] = "recv" /\ wpc'[w] = "check"

\* the step is the feeder's skip of the job it offers
FeederSkips == fIdx' = fIdx + 1 /\ \A w \in WorkerSlots : ~Handoff(w)

\* close(jobCh) runs once, when every job was offered
ClosesOnceAtEnd ==
    /\ jobChClosed => (jobChClosed' /\ fIdx' = fIdx)
    /\ (~jobChClosed /\ jobChClosed') => fIdx = N + 1

\* C19 as stated: once the feeder has taken the case of poolCtx.Done() for a
\* job, it sends ErrSkipped itself for every job it has not handed over,
\* hands no further job to a worker, never blocks, and closes jobCh, once,
\* when every job was handed over or skipped.
C19_Original ==
    [][/\ feederSaw => \A w \in WorkerSlots : ~Handoff(w)
       /\ (feederSaw /\ fIdx \in 1..N) => ENABLED FeederSkip
       /\ ClosesOnceAtEnd]_vars

\* C19 amended: once the feeder has taken the case of poolCtx.Done() for a
\* job, for which it calls sendResult with ErrSkipped, poolCtx is done, and
\* each later job is either skipped by the feeder in the same way or handed
\* to a worker that is receiving, which finds poolCtx done at its check;
\* the feeder never blocks again; it closes jobCh once, when every job was
\* offered, each of them handed to a worker or skipped.
C19_FeederAfterCancel ==
    /\ [](feederSaw => poolDone)
    /\ [](\A i \in 1..N :
            (path = "pool" /\ i < fIdx) =>
                \/ sendCalls[jobs[i]] > 0
                \/ \E w \in WorkerSlots : wjob[w] = jobs[i])
    /\ [][/\ \A w \in WorkerSlots :
               (feederSaw /\ Handoff(w)) => (wlate'[w] /\ fIdx' = fIdx + 1)
          /\ (FeederSkips /\ path = "pool") =>
                /\ poolDone /\ feederSaw'
                /\ sendCalls'[jobs[fIdx]] = sendCalls[jobs[fIdx]] + 1
                /\ jobs[fIdx] \in skipCalls'
          /\ (feederSaw /\ fIdx \in 1..N) => ENABLED FeederSkip
          /\ ClosesOnceAtEnd]_vars

C19_Witness ==
    /\ path = "pool" /\ N = 3
    /\ feederSaw
    /\ jobChClosed
    /\ \E w \in WorkerSlots :
          wpc[w] = "check" /\ wjob[w] = jobs[3] /\ wlate[w]

\* ---------------------------------------------------------------- C20
\* C20 as stated: for a job run under a token of the gate, the token is
\* given back, then the pool is cancelled for a failure under StopOnError,
\* and only then is the result sent: a result on outCh means that the
\* token of its job is back in the gate and that the cancellation its
\* failure asks for was made.
C20_Original ==
    ~globalSemaphore.nil =>
        \A w \in WorkerSlots :
            (wjob[w] # 0 /\ invoked[wjob[w]] > 0 /\ OutCount(wjob[w]) > 0) =>
                /\ w \notin InClosure
                /\ (wres[w] # NilErr /\ cfg.StopOnError) => cancelOnce

\* C20 amended: for a job run under a token of the gate, a returned error
\* under StopOnError cancels the pool before the result is sent, a panic
\* cancels it after its result is sent, and on both paths the token is
\* given back last, after the result is sent and after the cancellation:
\* a result can be on outCh while the token of its job is still in the
\* gate; the token is back before the worker receives its next job.
C20_ReleaseAfterEmit ==
    ~globalSemaphore.nil =>
        \A w \in WorkerSlots :
            /\ wpc[w] = "send" =>
                  /\ w \in InClosure /\ held > 0
                  /\ sendCalls[wjob[w]] = 0
                  /\ (wres[w] # NilErr /\ cfg.StopOnError) => cancelOnce
            /\ wpc[w] = "pstop" =>
                  /\ w \in InClosure /\ held > 0
                  /\ Sent(wjob[w], PanicErr)
            /\ wpc[w] = "release" =>
                  /\ w \in InClosure /\ held > 0
                  /\ Sent(wjob[w], wres[w])
                  /\ (wres[w] # NilErr /\ cfg.StopOnError) => cancelOnce
            /\ wpc[w] \in {"recv", "check", "done"} =>
                  held <= Cardinality(InClosure \ {w})

C20_Witness ==
    /\ ~globalSemaphore.nil
    /\ cfg.StopOnError
    /\ \E w \in WorkerSlots :
          /\ wpc[w] = "release"
          /\ wres[w] = OpErr
          /\ Sent(wjob[w], OpErr)
          /\ held = 1 /\ globalSemaphore.len = 1
          /\ cancelOnce

\* ---------------------------------------------------------------------
\* the workers whose workerFunc call has not come back
InFlight == {w \in WorkerSlots : wpc[w] = "run"}

\* C21: the caller's cancellation and the abort on a first error act
\* through poolCtx, as its deadline does, and every taskCtx is derived from
\* poolCtx: in every state where poolCtx is done the taskCtx of every
\* workerFunc call in flight is done and no taskCtx is live, and the
\* timeout a taskCtx gets is the smaller of cfg.WorkerTimeout and the time
\* poolCtx has left.
C21_TaskCtxFollowsPool ==
    /\ [](poolDone => /\ \A w \in InFlight : TaskDone(w)
                      /\ \A w \in WorkerSlots : taskCtx[w] # "live")
    /\ [](\A r \in taskLeft :
             /\ r.timeout \in {cfg.WorkerTimeout, r.left}
             /\ ~Less64(cfg.WorkerTimeout, r.timeout)
             /\ ~Less64(r.left, r.timeout))
    /\ [][(ctxDone' # ctxDone \/ cancelOnce' # cancelOnce) => poolDone']_vars

\* a worker's error has cancelled the pool while the other worker's call is
\* in flight, its taskCtx done with it, and a taskCtx was given the time
\* poolCtx had left, less than cfg.WorkerTimeout
C21_Witness ==
    /\ poolDone /\ cancelOnce
    /\ \E w \in InFlight : taskCtx[w] = "cancelled"
    /\ \E r \in taskLeft : r.timeout = r.left /\ r.left # cfg.WorkerTimeout

\* ---------------------------------------------------------------------
\* the workers whose workerFunc call has returned and whose sendResult call
\* of 195 is next
Completing == {w \in WorkerSlots : wpc[w] = "send"}

AllEnded ==
    /\ path # "call"
    /\ path \in {"dup", "skipall"} => pfIdx = 0
    /\ path = "pool" => /\ jobChClosed
                        /\ \A w \in Workers : wpc[w] = "done"
                        /\ finpc = "done"

\* no goroutine that has reached a send on outCh finds the buffer full
NoSendBlocks ==
    /\ path \in {"dup", "skipall"} /\ pfIdx \in 1..N => ENABLED PreflightSend
    /\ path = "pool" /\ fIdx \in 1..N /\ poolDone => ENABLED FeederSkip
    /\ \A w \in WorkerSlots :
          /\ wpc[w] = "check" => ENABLED WorkerPreCheck(w)
          /\ wpc[w] = "acquire" /\ poolDone =>
                 ENABLED WorkerAcquireCancelled(w)
          /\ wpc[w] = "woken" => ENABLED WorkerAcquireCancelled(w)
          /\ wpc[w] = "run" => ENABLED OpPanic(w)
          /\ wpc[w] = "send" => ENABLED WorkerSend(w)

\* C23: outCh is made with a buffer of len(jobs) places and never holds
\* more than len(jobs) results, so no send on it blocks; and, nothing
\* being received from outCh at any time, every run in which each
\* workerFunc call comes back ends with the feeder, the workers and the
\* finalizer ended and outCh closed, whether the call took the pool
\* branch, the duplicate-ID branch or the cancelled-parent branch.
C23_NoSendBlocksRunEnds ==
    /\ [](path \notin {"call", "empty"} => outCap = N)
    /\ [](BagCardinality(outCh) <= N)
    /\ []NoSendBlocks
    /\ <>(AllEnded /\ outClosed = 1)

\* a run of the pool branch has ended with outCh closed and full: a result
\* for each job of a longest batch, none of them received
C23_Witness ==
    /\ path = "pool" /\ N = MaxJobs
    /\ AllEnded /\ outClosed = 1
    /\ BagCardinality(outCh) = outCap

\* ---------------------------------------------------------------------
\* C24: the call tests for an empty batch first, then for a repeated ID,
\* then for a cancelled parent context, and the first test that applies
\* decides the branch. A batch with a repeated ID submitted under a
\* cancelled ctx gets only duplicate-ID results, none with ErrSkipped, and
\* N of them at the close; an empty batch submitted under a cancelled ctx
\* gets outCh closed and empty.
C24_PreflightOrder ==
    path # "call" =>
        /\ path = (IF N = 0 THEN "empty"
                   ELSE IF ~DistinctIDs THEN "dup"
                   ELSE IF ctxAtCall THEN "skipall"
                   ELSE "pool")
        /\ (ctxAtCall /\ N > 0 /\ ~DistinctIDs) =>
               /\ ErrSkipped \notin OutErrs
               /\ \A id \in JobIDs : ~Sent(id, ErrSkipped)
               /\ \A e \in OutErrs : e = pfErr /\ e[1] = "dup"
               /\ Closed => BagCardinality(outCh) = N
        /\ (ctxAtCall /\ N = 0) => (outClosed = 1 /\ outCh = EmptyBag)

\* a batch of three jobs, the third with the ID of the first, was submitted
\* under a cancelled ctx: outCh is closed with three duplicate-ID results
C24_Witness ==
    /\ ctxAtCall
    /\ N = 3
    /\ jobs[1] # jobs[2] /\ jobs[3] = jobs[1]
    /\ path = "dup"
    /\ Closed
    /\ BagCardinality(outCh) = N
    /\ OutErrs = {DupErr(jobs[1])}

\* ---------------------------------------------------------------------
\* the step in which the workerFunc call of worker w fails: it returns an
\* error, it panics and the handler sends, the handler ends, or the
\* deadline of its taskCtx passes
FailureStep(w) ==
    \/ wpc[w] = "run" /\ wpc'[w] = "send" /\ wres'[w] # NilErr
    \/ wpc[w] = "run" /\ wpc'[w] = "pstop"
    \/ wpc[w] = "pstop" /\ wpc'[w] = "release"
    \/ taskCtx[w] = "live" /\ taskCtx'[w] = "timeout"

\* the step leaves poolCtx, the feeder, the gate and the other workers as
\* they are, and calls no workerFunc
OthersUntouched(w) ==
    /\ UNCHANGED <<poolDone, cancelOnce, ctxDone, fIdx, jobChClosed, finpc,
                   globalSemaphore, held, invoked>>
    /\ \A v \in WorkerSlots \ {w} :
          /\ wpc'[v] = wpc[v]
          /\ wjob'[v] = wjob[v]
          /\ wres'[v] = wres[v]
          /\ taskCtx'[v] = taskCtx[v]

\* the workers and the feeder have ended and poolCtx was never done: the
\* caller has not cancelled ctx and the deadline of poolCtx has not passed
EndedUncancelled == finpc = "cancel" /\ ~poolDone

\* C25: with cfg.StopOnError unset, safeCancelPool never runs, and a step
\* in which a workerFunc call fails (an error returned, a panic, the
\* deadline of its taskCtx) leaves poolCtx and every other worker's job as
\* they are; and as long as poolCtx is not done (ctx not cancelled, the
\* batch deadline not passed) no sendResult call carries ErrSkipped, no
\* result on outCh has ErrSkipped and no job's workerFunc is called twice,
\* so that when the workers have ended every job's workerFunc has been
\* called exactly once and has its one result on outCh, which the
\* finalizer's steps leave as it is.
C25_FailureStaysLocal ==
    /\ [](~cfg.StopOnError => ~cancelOnce)
    /\ []((~cfg.StopOnError /\ path = "pool" /\ ~poolDone) =>
             /\ skipCalls = {}
             /\ ErrSkipped \notin OutErrs
             /\ \A id \in JobIDs : invoked[id] <= 1)
    /\ []((~cfg.StopOnError /\ EndedUncancelled) =>
             /\ BagCardinality(outCh) = N
             /\ \A i \in 1..N :
                    invoked[jobs[i]] = 1 /\ OutCount(jobs[i]) = 1)
    /\ [][\A w \in WorkerSlots :
             (~cfg.StopOnError /\ FailureStep(w)) => OthersUntouched(w)]_vars
    /\ [][(finpc = "cancel" \/ finpc = "close") =>
             (outCh' = outCh /\ invoked' = invoked
                /\ skipCalls' = skipCalls)]_vars

\* StopOnError unset, three jobs: one workerFunc call returned an error,
\* one panicked, one returned nil; poolCtx was never done and the workers
\* have ended, each job's workerFunc called once
C25_Witness ==
    /\ ~cfg.StopOnError
    /\ N = 3
    /\ EndedUncancelled
    /\ OutErrs = {NilErr, OpErr, PanicErr}
    /\ \A i \in 1..N : invoked[jobs[i]] = 1

====
